---- MODULE Spec2Model ----
(***************************************************************************)
(* A model of the terminal e-commerce application: the credential store    *)
(* (utils/general.py), authentication (auth/authentication.py,             *)
(* auth/validation.py), the inventory store (products/product_management), *)
(* the cart/inventory engine and checkout (cart/cart_management.py) and    *)
(* account management with its menus (user/account_management.py).         *)
(*                                                                         *)
(* Strings the code inspects (usernames, emails, passwords, the accounts   *)
(* file) are sequences of one-character strings.  Python object identity   *)
(* of the user dictionaries is kept: `users` is the list of references,    *)
(* `records` the dictionaries they point to, `current_user` a reference.   *)
(***************************************************************************)
EXTENDS Integers, Sequences, FiniteSets, Bags, TLC

VARIABLES
    users,          \* general.users: the list of user references, in order
    records,        \* the user dictionaries that are alive, by reference
    current_user,   \* general.current_user: a reference, or None
    cart,           \* general.cart: list of cart item dictionaries
    products,       \* general.products: list of product dictionaries
    accounts_txt,   \* the text of data/accounts.txt
    password,       \* generate_password's local list `password`, as the
                    \* bag of its characters (it is shuffled before use)
    running,        \* FALSE once an exception has left main()
    last            \* the last call: its name, arguments and outcome

vars == <<users, records, current_user, cart, products, accounts_txt,
          password, running, last>>

None == 0

----------------------------------------------------------------------------
(* Characters and strings *)

Digits == {"0", "1", "2", "3", "4", "5", "6", "7", "8", "9"}

ascii_lowercase ==
    <<"a", "b", "c", "d", "e", "f", "g", "h", "i", "j", "k", "l", "m",
      "n", "o", "p", "q", "r", "s", "t", "u", "v", "w", "x", "y", "z">>

ascii_uppercase ==
    <<"A", "B", "C", "D", "E", "F", "G", "H", "I", "J", "K", "L", "M",
      "N", "O", "P", "Q", "R", "S", "T", "U", "V", "W", "X", "Y", "Z">>

LowerCase == {ascii_lowercase[i] : i \in DOMAIN ascii_lowercase}

UpperCase == {ascii_uppercase[i] : i \in DOMAIN ascii_uppercase}

\* str.lower()
LowerChar(c) ==
    IF c \in UpperCase
    THEN ascii_lowercase[CHOOSE i \in DOMAIN ascii_uppercase :
                            ascii_uppercase[i] = c]
    ELSE c

Lower(s) == [i \in DOMAIN s |-> LowerChar(s[i])]

\* string.punctuation, in its order: sym_pass_chars[0] is "!".  The double
\* quote, the backslash and the backtick are written by name.
Punctuation ==
    <<"!", "dquote", "#", "$", "%", "&", "'", "(", ")", "*", "+", ",", "-",
      ".", "/", ":", ";", "<", "=", ">", "?", "@", "[", "backslash", "]", "^",
      "_", "backtick", "{", "|", "}", "~">>

\* the whitespace characters of the model's alphabet
Whitespace == {" ", "\t", "\n", "\r"}

Range(s) == {s[i] : i \in DOMAIN s}

\* str.strip(): without leading and trailing whitespace
RECURSIVE LStrip(_)
LStrip(s) ==
    IF s # <<>> /\ Head(s) \in Whitespace THEN LStrip(Tail(s)) ELSE s

RECURSIVE RStrip(_)
RStrip(s) ==
    IF s # <<>> /\ s[Len(s)] \in Whitespace
    THEN RStrip(SubSeq(s, 1, Len(s) - 1))
    ELSE s

Strip(s) == RStrip(LStrip(s))

\* str.isalnum(): non-empty and every character a letter or a digit
IsAlnum(s) ==
    /\ s # <<>>
    /\ \A i \in DOMAIN s : s[i] \in Digits \cup LowerCase \cup UpperCase

----------------------------------------------------------------------------
(* Inventory store *)

\* the stock load_products gives every product
DefaultStock == 10

\* the content of the data directory's warehouse file: name:price pairs
Warehouse ==
    <<[name |-> "Apple", price |-> 100], [name |-> "Banana", price |-> 50]>>

\* load_products: sequential ids from 1, the default stock for each
load_products(pairs) ==
    [i \in DOMAIN pairs |->
        [id |-> i, name |-> pairs[i].name, price |-> pairs[i].price,
         stock |-> DefaultStock]]

\* the linear scans `for p in general.products: if p['id'] == ...: break`:
\* the index of the first product with this id, 0 if there is none
FindProduct(ps, id) ==
    IF \E i \in DOMAIN ps : ps[i].id = id
    THEN CHOOSE i \in DOMAIN ps :
            /\ ps[i].id = id
            /\ \A j \in DOMAIN ps : ps[j].id = id => i <= j
    ELSE 0

\* `for item in general.cart: if item['product_id'] == ...: break`
FindCartItem(c, id) ==
    IF \E i \in DOMAIN c : c[i].product_id = id
    THEN CHOOSE i \in DOMAIN c :
            /\ c[i].product_id = id
            /\ \A j \in DOMAIN c : c[j].product_id = id => i <= j
    ELSE 0

----------------------------------------------------------------------------
(* Validation and hashing *)

\* validate_email: re.match(r"^\S+@\S+\.\S+$", mail).  `$` also matches
\* before one final newline; the three \S+ runs may hold "@" and "." too.
validate_email(mail) ==
    LET core == IF mail # <<>> /\ mail[Len(mail)] = "\n"
                THEN SubSeq(mail, 1, Len(mail) - 1) ELSE mail
    IN  /\ \A k \in DOMAIN core : core[k] \notin Whitespace
        /\ \E i, j \in DOMAIN core :
              /\ core[i] = "@"
              /\ core[j] = "."
              /\ 1 < i
              /\ i + 1 < j
              /\ j < Len(core)

\* the symbols of PASSWORD_VALIDATE_PATTERN's class [#?!@$%^&*-]
PolicySymbols == {"#", "?", "!", "@", "$", "%", "^", "&", "*", "-"}

\* the {16,} of PASSWORD_VALIDATE_PATTERN
MinPasswordLength == 16

\* validate_password: the four lookaheads, then at least 16 characters,
\* none of them a newline (`.` does not match it)
validate_password(pw) ==
    /\ \E i \in DOMAIN pw : pw[i] \in UpperCase
    /\ \E i \in DOMAIN pw : pw[i] \in LowerCase
    /\ \E i \in DOMAIN pw : pw[i] \in Digits
    /\ \E i \in DOMAIN pw : pw[i] \in PolicySymbols
    /\ Len(pw) >= MinPasswordLength
    /\ \A i \in DOMAIN pw : i < Len(pw) => pw[i] # "\n"

\* the passwords typed in the model
PwAlice == <<"A", "l", "i", "c", "e", "1", "!", "A", "l", "i", "c", "e",
             "1", "!", "A", "l">>

PwBob == <<"B", "o", "b", "2", "#", "B", "o", "b", "2", "#", "B", "o", "b",
           "2", "#", "B", "o">>

PwShort == <<"S", "h", "o", "r", "t", "1", "!">>

\* a password generate_password can return
GeneratedPw == <<"Q", "7", "k", "!", "Q", "Q", "Q", "Q", "Q", "Q", "Q", "Q",
                 "Q", "Q", "Q", "Q">>

\* the usernames and emails typed in the model
Alice == <<"a", "l", "i", "c", "e">>

AliceMail == <<"a", "l", "i", "c", "e", "@", "x", ".", "i", "o">>

Bob == <<"b", "o", "b">>

BobMail == <<"b", "o", "b", "@", "x", ".", "i", "o">>

Nobody == <<"n", "o", "b", "o", "d", "y">>

\* an answer typed with blanks around it, and a blank answer
Padded(s) == <<" ">> \o s \o <<" ">>

Blank == <<" ">>

\* the answers typed at the "Enter your Username / Email" and the password
\* prompts of sign_in_user and verify_current_password.  A call record names
\* an answer by its place in this list.
Keyboard ==
    <<Alice, AliceMail, Bob, BobMail, Nobody, Padded(Alice),
      PwAlice, PwBob, PwShort, GeneratedPw, Padded(PwAlice), Blank, <<>>>>

KeyOf(answer) == CHOOSE k \in DOMAIN Keyboard : Keyboard[k] = answer

\* hash_password: the SHA-256 hex digest.  The model's digest is injective
\* on the strings over PwChars, never empty, and made of hex digits only.
PwChars == <<"A", "l", "i", "c", "e", "1", "!", "B", "o", "b", "2", "#",
             "S", "h", "r", "t">>

HexDigits == <<"0", "1", "2", "3", "4", "5", "6", "7", "8", "9", "a", "b",
               "c", "d", "e", "f">>

HexOf(c) ==
    IF \E k \in DOMAIN PwChars : PwChars[k] = c
    THEN HexDigits[CHOOSE k \in DOMAIN PwChars : PwChars[k] = c]
    ELSE "0"

hash_password(pw) == <<"e", "3">> \o [i \in DOMAIN pw |-> HexOf(pw[i])]

----------------------------------------------------------------------------
(* Floats: the balances and amounts.  The model's floats are the whole     *)
(* numbers and the one float that is not a number, which float() reads     *)
(* from the text "nan".  Arithmetic with NaN gives NaN and every ordering  *)
(* comparison with NaN is false.                                           *)

\* float("nan"), coded as a value no balance or amount of the model takes
NaN == 2147483647

IsNaN(x) == x = NaN

FloatAdd(x, y) == IF IsNaN(x) \/ IsNaN(y) THEN NaN ELSE x + y

FloatSub(x, y) == IF IsNaN(x) \/ IsNaN(y) THEN NaN ELSE x - y

FloatLt(x, y) == ~IsNaN(x) /\ ~IsNaN(y) /\ x < y

FloatLe(x, y) == ~IsNaN(x) /\ ~IsNaN(y) /\ x <= y

FloatGt(x, y) == ~IsNaN(x) /\ ~IsNaN(y) /\ x > y

FloatGe(x, y) == ~IsNaN(x) /\ ~IsNaN(y) /\ x >= y

----------------------------------------------------------------------------
(* Credential store: data/accounts.txt *)

DigitSeq == <<"0", "1", "2", "3", "4", "5", "6", "7", "8", "9">>

DigitValue(c) == CHOOSE d \in 0 .. 9 : DigitSeq[d + 1] = c

\* the decimal digits of a natural number
RECURSIVE Decimal(_)
Decimal(n) ==
    IF n < 10 THEN <<DigitSeq[n + 1]>>
    ELSE Decimal(n \div 10) \o <<DigitSeq[(n % 10) + 1]>>

\* f"{user['balance']}" of a float balance.  The model's balances are whole
\* numbers of naira, below the size at which repr turns to an exponent.
FormatBalance(b) ==
    IF IsNaN(b) THEN <<"n", "a", "n">>
    ELSE (IF b < 0 THEN <<"-">> ELSE <<>>)
         \o Decimal(IF b < 0 THEN -b ELSE b) \o <<".", "0">>

\* one line of save_users
FormatLine(u) ==
    u.username \o <<",">> \o u.email \o <<",">> \o u.password_hash
    \o <<",">> \o FormatBalance(u.balance) \o <<"\n">>

\* the text save_users writes for a list of user dictionaries
RECURSIVE FormatUsers(_)
FormatUsers(us) ==
    IF us = <<>> THEN <<>> ELSE FormatLine(Head(us)) \o FormatUsers(Tail(us))

\* str.split(sep): the pieces between the separators, at least one piece
RECURSIVE SplitFrom(_, _, _)
SplitFrom(s, seps, piece) ==
    IF s = <<>> THEN <<piece>>
    ELSE IF Head(s) \in seps
         THEN <<piece>> \o SplitFrom(Tail(s), seps, <<>>)
         ELSE SplitFrom(Tail(s), seps, Append(piece, Head(s)))

Split(s, seps) == SplitFrom(s, seps, <<>>)

\* `for line in f`: the lines of a text file opened in text mode
FileLines(text) == Split(text, {"\n", "\r"})

IsDigits(s) == s # <<>> /\ \A i \in DOMAIN s : s[i] \in Digits

RECURSIVE DigitsValue(_)
DigitsValue(s) ==
    IF s = <<>> THEN 0
    ELSE 10 * DigitsValue(SubSeq(s, 1, Len(s) - 1)) + DigitValue(s[Len(s)])

\* float(text): a sign, then "nan" or digits and a fraction; anything else
\* raises ValueError.  The whole part is the value (the model's floats are
\* whole).
ParseFloat(text) ==
    LET neg == text # <<>> /\ Head(text) = "-"
        body == IF text # <<>> /\ Head(text) \in {"-", "+"}
                THEN Tail(text) ELSE text
        parts == Split(body, {"."})
        ok == /\ Len(parts) \in {1, 2}
              /\ IsDigits(parts[1])
              /\ Len(parts) = 2 => (parts[2] = <<>> \/ IsDigits(parts[2]))
    IN  IF Lower(body) = <<"n", "a", "n">>
        THEN [ok |-> TRUE, val |-> NaN]
        ELSE IF ok
        THEN [ok |-> TRUE,
              val |-> IF neg THEN -DigitsValue(parts[1])
                      ELSE DigitsValue(parts[1])]
        ELSE [ok |-> FALSE, val |-> 0]

\* the body of load_users' loop for one line: the user dictionary the line
\* gives, in a sequence, or the empty sequence when the line is skipped
ParseLine(raw) ==
    LET line == Strip(raw)
        fields == Split(line, {","})
    IN  IF line = <<>> THEN <<>>
        ELSE IF Len(fields) # 4 THEN <<>>
        ELSE IF \/ Strip(fields[1]) = <<>>
                \/ Strip(fields[2]) = <<>>
                \/ Strip(fields[3]) = <<>>
             THEN <<>>
        ELSE LET balance == ParseFloat(Strip(fields[4])) IN
             IF ~balance.ok \/ FloatLt(balance.val, 0) THEN <<>>
             ELSE <<[username |-> Strip(fields[1]),
                     email |-> Strip(fields[2]),
                     password_hash |-> Strip(fields[3]),
                     balance |-> balance.val]>>

RECURSIVE ParseLines(_)
ParseLines(lines) ==
    IF lines = <<>> THEN <<>>
    ELSE ParseLine(Head(lines)) \o ParseLines(Tail(lines))

\* the user dictionaries load_users appends, in order
ParseUsers(text) == ParseLines(FileLines(text))

\* the user dictionaries of general.users, in list order
UserList == [i \in DOMAIN users |-> records[users[i]]]

\* the text save_users would write now
UsersText == FormatUsers(UserList)

\* a list of fresh dictionaries: references 1..n to the dictionaries of `us`
RefsOf(us) == [i \in DOMAIN us |-> i]

RecordsOf(us) == [r \in DOMAIN us |-> us[r]]

----------------------------------------------------------------------------
(* Cart/inventory engine *)

\* a call: its name, its (up to two) integer arguments, and what it returned
\* or, for a function that returns nothing, the message it printed
Call(op, a, b, ret) == [op |-> op, a |-> a, b |-> b, ret |-> ret]

store_vars == <<users, records, current_user, accounts_txt>>

\* add_to_cart's second early return: the product is out of stock
OutOfStock_NegativeOnly(p) == p.stock < 0

OutOfStock(p) == p.stock <= 0

\* add_to_cart's for/else: one more of the existing item, or a new item
CartAfterAdd_AlwaysAppend(c, product) ==
    Append(c, [product_id |-> product.id, quantity |-> 1,
               name |-> product.name, price |-> product.price])

CartAfterAdd(c, product) ==
    LET ci == FindCartItem(c, product.id) IN
    IF ci # 0
    THEN [c EXCEPT ![ci].quantity = @ + 1]
    ELSE Append(c, [product_id |-> product.id, quantity |-> 1,
                    name |-> product.name, price |-> product.price])

\* `p['stock'] += n` on the first product with this id, if there is one
ReturnStock_OneShort(ps, id, n) ==
    LET pi == FindProduct(ps, id) IN
    IF pi = 0 THEN ps ELSE [ps EXCEPT ![pi].stock = @ + n - 1]

ReturnStock(ps, id, n) ==
    LET pi == FindProduct(ps, id) IN
    IF pi = 0 THEN ps ELSE [ps EXCEPT ![pi].stock = @ + n]

\* update_cart_item's stock check
InsufficientStock_Unchecked(stock, quantity_diff) == FALSE

InsufficientStock_OffByOne(stock, quantity_diff) ==
    quantity_diff > 0 /\ stock <= quantity_diff

InsufficientStock(stock, quantity_diff) ==
    quantity_diff > 0 /\ stock < quantity_diff

\* `del general.cart[item_index]`, item_index counted from 0
DeleteItem_First(c, item_index) == Tail(c)

DeleteItem(c, item_index) ==
    SubSeq(c, 1, item_index) \o SubSeq(c, item_index + 2, Len(c))

\* clear_cart's loop: every item's quantity goes back to its product
RECURSIVE ReturnAll(_, _)
ReturnAll(ps, c) ==
    IF c = <<>> THEN ps
    ELSE ReturnAll(ReturnStock(ps, Head(c).product_id, Head(c).quantity),
                   Tail(c))

add_to_cart(product) ==
    /\ running
    /\ LET pi == FindProduct(products, product.id) IN
       IF pi = 0
       THEN /\ UNCHANGED <<cart, products>>
            /\ last' = Call("add_to_cart", product.id, 0, "not found")
       ELSE IF OutOfStock(products[pi])
       THEN /\ UNCHANGED <<cart, products>>
            /\ last' = Call("add_to_cart", product.id, 0, "out of stock")
       ELSE /\ cart' = CartAfterAdd(cart, product)
            /\ products' = [products EXCEPT ![pi].stock = @ - 1]
            /\ last' = Call("add_to_cart", product.id, 0, "added")
    /\ UNCHANGED <<store_vars, password, running>>

update_cart_item(item_id, quantity) ==
    /\ running
    /\ IF item_id < 0 \/ item_id >= Len(cart) \/ quantity <= 0
       THEN /\ UNCHANGED <<cart, products>>
            /\ last' = Call("update_cart_item", item_id, quantity, "False")
       ELSE LET product_id == cart[item_id + 1].product_id
                current_quantity == cart[item_id + 1].quantity
                pi == FindProduct(products, product_id)
                quantity_diff == quantity - current_quantity
            IN  IF pi = 0 \/ InsufficientStock(
                                products[IF pi = 0 THEN 1 ELSE pi].stock,
                                quantity_diff)
                THEN /\ UNCHANGED <<cart, products>>
                     /\ last' = Call("update_cart_item", item_id, quantity,
                                     "False")
                ELSE /\ cart' = [cart EXCEPT ![item_id + 1].quantity = quantity]
                     /\ products' =
                            [products EXCEPT ![pi].stock = @ - quantity_diff]
                     /\ last' = Call("update_cart_item", item_id, quantity,
                                     "True")
    /\ UNCHANGED <<store_vars, password, running>>

remove_from_cart(item_index) ==
    /\ running
    /\ IF item_index < 0 \/ item_index >= Len(cart)
       THEN /\ UNCHANGED <<cart, products>>
            /\ last' = Call("remove_from_cart", item_index, 0, "False")
       ELSE /\ products' = ReturnStock(products,
                                       cart[item_index + 1].product_id,
                                       cart[item_index + 1].quantity)
            /\ cart' = DeleteItem(cart, item_index)
            /\ last' = Call("remove_from_cart", item_index, 0, "True")
    /\ UNCHANGED <<store_vars, password, running>>

clear_cart ==
    /\ running
    /\ IF cart = <<>>
       THEN /\ UNCHANGED <<cart, products>>
            /\ last' = Call("clear_cart", 0, 0, "already empty")
       ELSE /\ products' = ReturnAll(products, cart)
            /\ cart' = <<>>
            /\ last' = Call("clear_cart", 0, 0, "cleared")
    /\ UNCHANGED <<store_vars, password, running>>

----------------------------------------------------------------------------
(* Sessions, wallet and checkout *)

\* the dictionary general.current_user refers to
CurrentUser == records[current_user]

\* the dictionaries still referred to, by the list or by the session
Live(recs, us, cu) ==
    [r \in {x \in DOMAIN recs : x \in Range(us) \/ x = cu} |-> recs[r]]

\* what data/accounts.txt holds after save_users on the list `us`; when the
\* file cannot be opened for writing (`io` is "error") it keeps its text
Written(io, us, recs) ==
    IF io = "ok" THEN FormatUsers([i \in DOMAIN us |-> recs[us[i]]])
    ELSE accounts_txt

Flag(b) == IF b THEN 1 ELSE 0

\* the dashboard and its menus run: a user is signed in
InDashboard == running /\ current_user # None

\* the Sign In / Sign Up menu of main() is showing
InMainMenu == running /\ current_user = None

\* sign_in_user's loop: the index of the first user whose username or email
\* is the identifier, 0 if there is none
FirstMatch_LastWins(identity) ==
    IF \E i \in DOMAIN users :
          \/ records[users[i]].username = identity
          \/ records[users[i]].email = identity
    THEN CHOOSE i \in DOMAIN users :
            /\ \/ records[users[i]].username = identity
               \/ records[users[i]].email = identity
            /\ \A j \in DOMAIN users :
                  (\/ records[users[j]].username = identity
                   \/ records[users[j]].email = identity) => j <= i
    ELSE 0

FirstMatch(identity) ==
    IF \E i \in DOMAIN users :
          \/ records[users[i]].username = identity
          \/ records[users[i]].email = identity
    THEN CHOOSE i \in DOMAIN users :
            /\ \/ records[users[i]].username = identity
               \/ records[users[i]].email = identity
            /\ \A j \in DOMAIN users :
                  (\/ records[users[j]].username = identity
                   \/ records[users[j]].email = identity) => i <= j
    ELSE 0

sign_in_user(identity, pw) ==
    /\ InMainMenu
    /\ LET m == FirstMatch(Strip(identity))
           ok == m # 0 /\ records[users[IF m = 0 THEN 1 ELSE m]].password_hash
                            = hash_password(Strip(pw))
       IN  /\ current_user' = IF ok THEN users[m] ELSE current_user
           /\ last' = Call("sign_in_user", KeyOf(identity), KeyOf(pw),
                           IF ok THEN "True" ELSE "False")
    /\ UNCHANGED <<users, records, cart, products, accounts_txt, password,
                   running>>

\* dashboard, choice 4
logout_KeepsCart ==
    /\ InDashboard
    /\ current_user' = None
    /\ records' = Live(records, users, None)
    /\ last' = Call("logout", 0, 0, "None")
    /\ UNCHANGED <<users, cart, products, accounts_txt, password, running>>

logout ==
    /\ InDashboard
    /\ current_user' = None
    /\ cart' = <<>>
    /\ records' = Live(records, users, None)
    /\ last' = Call("logout", 0, 0, "None")
    /\ UNCHANGED <<users, products, accounts_txt, password, running>>

\* fund_wallet's fixed amounts, choices 1 to 4
FundOptions == <<10000, 20000, 50000, 100000>>

\* the largest custom amount fund_wallet accepts
MaxFunding == 100000000

\* fund_wallet with an accepted choice (and, for choice 5, an accepted custom
\* amount); save_users is not guarded, so its exception leaves main()
fund_wallet(fund_choice, custom, io) ==
    /\ InDashboard
    /\ fund_choice \in 1 .. 5
    /\ fund_choice = 5 => ~FloatLe(custom, 0) /\ ~FloatGt(custom, MaxFunding)
    /\ LET amount == IF fund_choice = 5 THEN custom
                     ELSE FundOptions[fund_choice]
       IN  /\ records' = [records EXCEPT
                             ![current_user].balance = FloatAdd(@, amount)]
           /\ last' = Call("fund_wallet", amount, Flag(io = "ok"),
                           IF io = "ok" THEN "None" ELSE "OSError")
    /\ accounts_txt' = Written(io, users, records')
    /\ running' = (io = "ok")
    /\ UNCHANGED <<users, current_user, cart, products, password>>

\* view_cart's total
RECURSIVE view_cart(_)
view_cart(c) ==
    IF c = <<>> THEN 0
    ELSE Head(c).price * Head(c).quantity + view_cart(Tail(c))

\* checkout's balance test
InsufficientFunds_OrEqual(total, balance) == FloatGe(total, balance)

InsufficientFunds(total, balance) == FloatGt(total, balance)

\* checkout; `confirm` is the answer to "Confirm purchase (y/n)"
checkout(confirm, io) ==
    /\ InDashboard
    /\ LET total == view_cart(cart)
           said(ret) == Call("checkout", Flag(confirm = "y"), Flag(io = "ok"),
                             ret)
       IN
       IF total = 0
       THEN /\ UNCHANGED <<records, cart, accounts_txt>>
            /\ last' = said("empty")
       ELSE IF InsufficientFunds(total, CurrentUser.balance)
       THEN /\ UNCHANGED <<records, cart, accounts_txt>>
            /\ last' = said("insufficient funds")
       ELSE IF confirm # "y"
       THEN /\ UNCHANGED <<records, cart, accounts_txt>>
            /\ last' = said("cancelled")
       ELSE /\ records' = [records EXCEPT
                              ![current_user].balance = FloatSub(@, total)]
            /\ accounts_txt' = Written(io, users, records')
            /\ cart' = IF io = "ok" THEN <<>> ELSE cart
            /\ last' = said(IF io = "ok" THEN "successful" ELSE "error saving")
    /\ UNCHANGED <<users, current_user, products, password, running>>

\* verify_current_password
verify_current_password_NonEmptyOnly(pw) == Strip(pw) # <<>>

verify_current_password(pw) ==
    /\ Strip(pw) # <<>>
    /\ hash_password(Strip(pw)) = CurrentUser.password_hash

\* reset_balance's threshold for the second confirmation
LargeBalance == 50000

reset_balance(pw, confirm, confirm_again, io) ==
    /\ InDashboard
    /\ IF ~verify_current_password(pw)
       THEN /\ UNCHANGED <<records, accounts_txt>>
            /\ last' = Call("reset_balance", KeyOf(pw), 0, "incorrect password")
       ELSE IF \/ confirm # "y"
               \/ /\ FloatGt(CurrentUser.balance, LargeBalance)
                  /\ confirm_again # "RESET"
       THEN /\ UNCHANGED <<records, accounts_txt>>
            /\ last' = Call("reset_balance", KeyOf(pw), 0, "cancelled")
       ELSE /\ records' = [records EXCEPT ![current_user].balance = 0]
            /\ accounts_txt' = Written(io, users, records')
            /\ last' = Call("reset_balance", KeyOf(pw), Flag(io = "ok"),
                            IF io = "ok" THEN "reset" ELSE "error saving")
    /\ UNCHANGED <<users, current_user, cart, products, password, running>>

\* list.remove(x): without the first element equal to x (dictionaries are
\* compared by value)
RemoveFirstEqual(us, recs, x) ==
    LET k == CHOOSE i \in DOMAIN us :
                /\ recs[us[i]] = x
                /\ \A j \in DOMAIN us : recs[us[j]] = x => i <= j
    IN  SubSeq(us, 1, k - 1) \o SubSeq(us, k + 1, Len(us))

\* delete_account, and what follows it in account_menu and dashboard.
\* users.remove raises ValueError outside the try when no element equals the
\* current user; after a successful deletion account_menu returns and
\* dashboard's next pass reads general.current_user['username'] of None, a
\* TypeError: both leave main().
delete_account(pw, confirm, confirm2, io) ==
    /\ InDashboard
    /\ IF ~verify_current_password(pw)
       THEN /\ UNCHANGED <<users, records, current_user, cart, accounts_txt,
                           running>>
            /\ last' = Call("delete_account", KeyOf(pw), 0,
                            "incorrect password")
       ELSE IF confirm # "y" \/ confirm2 # "DELETE"
       THEN /\ UNCHANGED <<users, records, current_user, cart, accounts_txt,
                           running>>
            /\ last' = Call("delete_account", KeyOf(pw), 0, "cancelled")
       ELSE IF ~\E i \in DOMAIN users : records[users[i]] = CurrentUser
       THEN /\ running' = FALSE
            /\ UNCHANGED <<users, records, current_user, cart, accounts_txt>>
            /\ last' = Call("delete_account", KeyOf(pw), 0, "ValueError")
       ELSE LET left == RemoveFirstEqual(users, records, CurrentUser) IN
            /\ users' = left
            /\ accounts_txt' = Written(io, left, records)
            /\ IF io = "ok"
               THEN /\ current_user' = None
                    /\ cart' = <<>>
                    /\ records' = Live(records, left, None)
                    /\ running' = FALSE
                    /\ last' = Call("delete_account", KeyOf(pw), 1, "True")
               ELSE /\ records' = Live(records, left, current_user)
                    /\ UNCHANGED <<current_user, cart, running>>
                    /\ last' = Call("delete_account", KeyOf(pw), 0,
                                    "error deleting")
    /\ UNCHANGED <<products, password>>

----------------------------------------------------------------------------
(* Sign-up and the account changes *)

\* the username checks of sign_up_user and change_username that send the
\* prompt round again.  The scan for a taken username only prints: its
\* `continue` continues the for loop, and the `break` after it is reached.
UsernameAccepted(name) ==
    /\ name # <<>>
    /\ Len(name) >= 2
    /\ IsAlnum(name)

\* the email scan of sign_up_user and change_email
EmailExists_ScanOnlyPrints(mail) == FALSE

EmailExists(mail) == \E i \in DOMAIN users : records[users[i]].email = mail

\* a reference no live dictionary has
NewRef ==
    CHOOSE r \in 1 .. Cardinality(DOMAIN records) + 1 : r \notin DOMAIN records

\* The prompt loops' tests are compared with TRUE: each is one test of the
\* answer, whichever characters make it pass.

\* sign_up_user with the answers its three prompt loops accept; `generated`
\* is what generate_password returned when the password is auto-generated.
\* save_users is not guarded: its exception leaves main().
sign_up_user(username, email, choice, typed, generated, io) ==
    /\ InMainMenu
    /\ UsernameAccepted(Strip(username))
    /\ Lower(Strip(email)) # <<>>
    /\ validate_email(Lower(Strip(email))) = TRUE
    /\ ~EmailExists(Lower(Strip(email)))
    /\ choice \in {"y", "yes", "n", "no"}
    /\ choice \in {"n", "no"} => validate_password(Strip(typed)) = TRUE
    /\ LET pw == IF choice \in {"y", "yes"} THEN generated ELSE Strip(typed)
           ref == NewRef
           new_user == [username |-> Strip(username),
                        email |-> Lower(Strip(email)),
                        password_hash |-> hash_password(pw),
                        balance |-> 0]
       IN  /\ users' = Append(users, ref)
           /\ records' = [r \in DOMAIN records \cup {ref} |->
                             IF r = ref THEN new_user ELSE records[r]]
           /\ accounts_txt' = Written(io, users', records')
           /\ current_user' = IF io = "ok" THEN ref ELSE current_user
           /\ running' = (io = "ok")
           /\ last' = Call("sign_up_user", ref, Flag(io = "ok"),
                           IF io = "ok" THEN "True" ELSE "OSError")
    /\ UNCHANGED <<cart, products, password>>

\* change_username: the last round of its loop
change_username(pw, new_username, io) ==
    /\ InDashboard
    /\ IF ~verify_current_password(pw)
       THEN /\ UNCHANGED <<records, accounts_txt>>
            /\ last' = Call("change_username", KeyOf(pw), 0,
                            "incorrect password")
       ELSE /\ UsernameAccepted(Strip(new_username))
            /\ records' = [records EXCEPT
                              ![current_user].username = Strip(new_username)]
            /\ accounts_txt' = Written(io, users, records')
            /\ last' = Call("change_username", KeyOf(pw), Flag(io = "ok"),
                            IF io = "ok" THEN "updated" ELSE "error saving")
    /\ UNCHANGED <<users, current_user, cart, products, password, running>>

change_email(pw, new_email, io) ==
    /\ InDashboard
    /\ IF ~verify_current_password(pw)
       THEN /\ UNCHANGED <<records, accounts_txt>>
            /\ last' = Call("change_email", KeyOf(pw), 0, "incorrect password")
       ELSE /\ validate_email(Lower(Strip(new_email))) = TRUE
            /\ ~EmailExists(Lower(Strip(new_email)))
            /\ records' = [records EXCEPT
                              ![current_user].email = Lower(Strip(new_email))]
            /\ accounts_txt' = Written(io, users, records')
            /\ last' = Call("change_email", KeyOf(pw), Flag(io = "ok"),
                            IF io = "ok" THEN "updated" ELSE "error saving")
    /\ UNCHANGED <<users, current_user, cart, products, password, running>>

change_password(pw, new_password, confirm_password, confirm, io) ==
    /\ InDashboard
    /\ IF ~verify_current_password(pw)
       THEN /\ UNCHANGED <<records, accounts_txt>>
            /\ last' = Call("change_password", KeyOf(pw), 0,
                            "incorrect password")
       ELSE /\ validate_password(Strip(new_password)) = TRUE
            /\ Strip(new_password) = Strip(confirm_password)
            /\ hash_password(Strip(new_password)) # CurrentUser.password_hash
            /\ IF confirm # "y"
               THEN /\ UNCHANGED <<records, accounts_txt>>
                    /\ last' = Call("change_password", KeyOf(pw), 0, "cancelled")
               ELSE /\ records' =
                          [records EXCEPT
                              ![current_user].password_hash =
                                  hash_password(Strip(new_password))]
                    /\ accounts_txt' = Written(io, users, records')
                    /\ last' = Call("change_password", KeyOf(pw), Flag(io = "ok"),
                                    IF io = "ok" THEN "changed"
                                    ELSE "error saving")
    /\ UNCHANGED <<users, current_user, cart, products, password, running>>

----------------------------------------------------------------------------
(* The program as main() runs it: the accounts file and the warehouse are  *)
(* loaded, then the menus offer sign-in, the wallet, the cart, checkout,   *)
(* the balance reset, account deletion and logout.                         *)

\* data/accounts.txt when the program starts: one account, nothing in its
\* wallet
SeedUsers ==
    <<[username |-> Alice, email |-> AliceMail,
       password_hash |-> hash_password(PwAlice), balance |-> 0]>>

\* the data directory's warehouse file when the program starts
ShopWarehouse == <<[name |-> "Banana", price |-> 50]>>

\* the custom amounts typed at "Enter custom amount"
CustomAmounts == {50, 100}

\* the largest wallet balance the model follows, in fundings of 50
WalletCap == 3

MaxBalance == WalletCap * 50

Answers == {"y", "n"}

IoOutcomes == {"ok", "error"}

Init ==
    /\ accounts_txt = FormatUsers(SeedUsers)
    /\ users = RefsOf(ParseUsers(accounts_txt))
    /\ records = RecordsOf(ParseUsers(accounts_txt))
    /\ current_user = None
    /\ cart = <<>>
    /\ products = load_products(ShopWarehouse)
    /\ password = EmptyBag
    /\ running = TRUE
    /\ last = Call("main", 0, 0, "None")

\* handle_search_results adds a listed product that is in stock
SearchAndAdd ==
    \E product \in Range(products) :
        /\ InDashboard
        /\ product.stock > 0
        /\ add_to_cart(product)

\* handle_cart_management, shown while the cart is not empty
ChangeQuantity ==
    \E i \in 0 .. Len(cart), q \in 0 .. DefaultStock :
        /\ InDashboard
        /\ cart # <<>>
        /\ update_cart_item(i, q)

RemoveItem ==
    \E i \in 0 .. Len(cart) :
        /\ InDashboard
        /\ cart # <<>>
        /\ remove_from_cart(i)

ClearCart ==
    /\ InDashboard
    /\ cart # <<>>
    /\ clear_cart

\* purchase_menu offers checkout when the cart is not empty
Checkout ==
    \E confirm \in Answers, io \in IoOutcomes :
        /\ InDashboard
        /\ cart # <<>>
        /\ checkout(confirm, io)

FundWallet ==
    \E fund_choice \in 1 .. 5, custom \in CustomAmounts, io \in IoOutcomes :
        /\ InDashboard
        /\ CurrentUser.balance
             + (IF fund_choice = 5 THEN custom ELSE FundOptions[fund_choice])
             <= MaxBalance
        /\ fund_wallet(fund_choice, custom, io)

SignIn ==
    \E identity \in {Alice, AliceMail, Nobody}, pw \in {PwAlice, PwBob} :
        sign_in_user(identity, pw)

ResetBalance ==
    \E pw \in {PwAlice, PwBob}, confirm \in Answers, io \in IoOutcomes :
        reset_balance(pw, confirm, "RESET", io)

DeleteAccount ==
    \E pw \in {PwAlice, PwBob}, confirm \in Answers,
       confirm2 \in {"DELETE", "no"}, io \in IoOutcomes :
        delete_account(pw, confirm, confirm2, io)

Next ==
    \/ SignIn
    \/ logout
    \/ FundWallet
    \/ SearchAndAdd
    \/ ChangeQuantity
    \/ RemoveItem
    \/ ClearCart
    \/ Checkout
    \/ ResetBalance
    \/ DeleteAccount

Spec == Init /\ [][Next]_vars

----------------------------------------------------------------------------
(* The wallet: the program as main() runs it, with any text float() reads  *)
(* typed at "Enter custom amount", and without account deletion.           *)

\* the custom amounts typed: "50", "100", "-50" and "nan"
TypedAmounts == {50, 100, -50, NaN}

FundWalletTyped ==
    \E fund_choice \in 1 .. 5, custom \in TypedAmounts, io \in IoOutcomes :
        /\ InDashboard
        /\ LET after == FloatAdd(CurrentUser.balance,
                                 IF fund_choice = 5 THEN custom
                                 ELSE FundOptions[fund_choice])
           IN  IsNaN(after) \/ after <= MaxBalance
        /\ fund_wallet(fund_choice, custom, io)

WalletNext ==
    \/ SignIn
    \/ logout
    \/ FundWalletTyped
    \/ SearchAndAdd
    \/ ChangeQuantity
    \/ RemoveItem
    \/ ClearCart
    \/ Checkout
    \/ ResetBalance

SpecWallet == Init /\ [][WalletNext]_vars

----------------------------------------------------------------------------
(* The accounts of the program: sign-up, sign-in, logout and the account   *)
(* menu, from the same start as main().                                    *)

\* the longest user list sign-up is followed to
MaxUsers == 2

TypedNames == {Alice, Bob, <<"b">>, <<"b", "_", "b">>}

TypedEmails ==
    {AliceMail, BobMail, <<"B", "o", "b", "@", "x", ".", "i", "o">>, Bob}

TypedPasswords == {PwAlice, PwBob, PwShort}

SignUp ==
    \E username \in TypedNames, email \in TypedEmails,
       choice \in {"y", "n"}, typed \in TypedPasswords, io \in IoOutcomes :
        /\ Len(users) < MaxUsers
        /\ sign_up_user(username, email, choice, typed, GeneratedPw, io)

AccountsSignIn ==
    \E identity \in {Alice, Bob, AliceMail, BobMail, Nobody, Padded(Alice)},
       pw \in TypedPasswords \cup {GeneratedPw, Padded(PwAlice)} :
        sign_in_user(identity, pw)

ChangeUsername ==
    \E pw \in TypedPasswords \cup {GeneratedPw}, new_username \in TypedNames,
       io \in IoOutcomes :
        change_username(pw, new_username, io)

ChangeEmail ==
    \E pw \in TypedPasswords \cup {GeneratedPw}, new_email \in TypedEmails,
       io \in IoOutcomes :
        change_email(pw, new_email, io)

AccountsNext ==
    \/ SignUp
    \/ AccountsSignIn
    \/ logout
    \/ ChangeUsername
    \/ ChangeEmail

SpecAccounts == Init /\ [][AccountsNext]_vars

----------------------------------------------------------------------------
(* The account menu: a user with money in the wallet signs in, puts items  *)
(* in the cart and uses the five operations of account_menu that ask for   *)
(* the password again.                                                     *)

\* data/accounts.txt when the program starts: one account, funded earlier
FundedUsers ==
    <<[username |-> Alice, email |-> AliceMail,
       password_hash |-> hash_password(PwAlice), balance |-> 100]>>

\* the most units the cart is filled with before the account menu is used
MaxCartUnits == 1

\* the answers typed at "Enter your password to verify"
VerifyAnswers == {PwAlice, PwBob, Padded(PwAlice), Blank, <<>>}

MenuInit ==
    /\ accounts_txt = FormatUsers(FundedUsers)
    /\ users = RefsOf(ParseUsers(accounts_txt))
    /\ records = RecordsOf(ParseUsers(accounts_txt))
    /\ current_user = None
    /\ cart = <<>>
    /\ products = load_products(ShopWarehouse)
    /\ password = EmptyBag
    /\ running = TRUE
    /\ last = Call("main", 0, 0, "None")

MenuSignIn ==
    \E identity \in {Alice, Bob, AliceMail}, pw \in {PwAlice, PwBob} :
        sign_in_user(identity, pw)

MenuAdd ==
    \E product \in Range(products) :
        /\ InDashboard
        /\ product.stock > DefaultStock - MaxCartUnits
        /\ add_to_cart(product)

\* the writes of the four changes succeed here; the write of the deletion
\* may fail, which leaves the session on a record the list no longer holds
MenuIo == {"ok"}

MenuChangeUsername ==
    \E pw \in VerifyAnswers, new_username \in {Bob}, io \in MenuIo :
        change_username(pw, new_username, io)

MenuChangeEmail ==
    \E pw \in VerifyAnswers, new_email \in {BobMail}, io \in MenuIo :
        change_email(pw, new_email, io)

MenuChangePassword ==
    \E pw \in VerifyAnswers, new_password \in {PwAlice, PwBob},
       confirm \in Answers, io \in MenuIo :
        change_password(pw, new_password, new_password, confirm, io)

MenuResetBalance ==
    \E pw \in VerifyAnswers, confirm \in Answers, io \in MenuIo :
        reset_balance(pw, confirm, "RESET", io)

MenuDeleteAccount ==
    \E pw \in VerifyAnswers, confirm \in Answers, io \in IoOutcomes :
        delete_account(pw, confirm, "DELETE", io)

MenuNext ==
    \/ MenuSignIn
    \/ logout
    \/ MenuAdd
    \/ MenuChangeUsername
    \/ MenuChangeEmail
    \/ MenuChangePassword
    \/ MenuResetBalance
    \/ MenuDeleteAccount

SpecAccountMenu == MenuInit /\ [][MenuNext]_vars

----------------------------------------------------------------------------
(* The cart engine on its own: freshly loaded products, an empty cart, and *)
(* the four cart operations called with any argument.                      *)

\* a product dictionary whose id no product of the inventory has
UnknownProduct ==
    [id |-> Len(Warehouse) + 1, name |-> "Cherry", price |-> 70,
     stock |-> DefaultStock]

ProductArgs == Range(products) \cup {UnknownProduct}

\* item numbers and quantities a caller may pass, valid or not
IndexArgs == -1 .. Len(cart)

QuantityArgs == -1 .. DefaultStock + 1

NoStore ==
    /\ users = <<>>
    /\ records = <<>>
    /\ current_user = None
    /\ accounts_txt = <<>>
    /\ password = <<>>
    /\ running = TRUE

CartInit ==
    /\ NoStore
    /\ products = load_products(Warehouse)
    /\ cart = <<>>
    /\ last = Call("load_products", 0, 0, "None")

CartNext ==
    \/ \E product \in ProductArgs : add_to_cart(product)
    \/ \E i \in IndexArgs, q \in QuantityArgs : update_cart_item(i, q)
    \/ \E i \in IndexArgs : remove_from_cart(i)
    \/ clear_cart

SpecCart == CartInit /\ [][CartNext]_vars

----------------------------------------------------------------------------
(* The shop of a signed-in user: the four cart operations, called with any *)
(* argument, and checkout, from freshly loaded products.                   *)

ShopInit ==
    /\ accounts_txt = FormatUsers(FundedUsers)
    /\ users = RefsOf(ParseUsers(accounts_txt))
    /\ records = RecordsOf(ParseUsers(accounts_txt))
    /\ current_user = users[1]
    /\ cart = <<>>
    /\ products = load_products(ShopWarehouse)
    /\ password = EmptyBag
    /\ running = TRUE
    /\ last = Call("sign_in_user", KeyOf(Alice), KeyOf(PwAlice), "True")

ShopNext ==
    \/ \E product \in ProductArgs : add_to_cart(product)
    \/ \E i \in IndexArgs, q \in QuantityArgs : update_cart_item(i, q)
    \/ \E i \in IndexArgs : remove_from_cart(i)
    \/ clear_cart
    \/ \E confirm \in Answers, io \in IoOutcomes : checkout(confirm, io)

SpecShop == ShopInit /\ [][ShopNext]_vars

----------------------------------------------------------------------------
(* The credential store on its own: save_users and load_users on a list of *)
(* user records.                                                           *)

\* save_users; `io` tells whether the file could be opened for writing
save_users(io) ==
    /\ running
    /\ accounts_txt' = IF io = "ok" THEN UsersText ELSE accounts_txt
    /\ last' = Call("save_users", 0, 0, IF io = "ok" THEN "None" ELSE "OSError")
    /\ UNCHANGED <<users, records, current_user, cart, products, password,
                   running>>

\* load_users: general.users becomes a new list of new dictionaries
load_users ==
    /\ running
    /\ users' = RefsOf(ParseUsers(accounts_txt))
    /\ records' = RecordsOf(ParseUsers(accounts_txt))
    /\ last' = Call("load_users", 0, 0, "None")
    /\ UNCHANGED <<current_user, cart, products, accounts_txt, password,
                   running>>

\* the longest email and the longest user list the store is tried on
MaxEmailLen == 5

MaxStoreUsers == 2

EmailChars == {"a", "@", ".", ","}

StoreEmails ==
    {e \in UNION {[1 .. n -> EmailChars] : n \in 1 .. MaxEmailLen} :
        validate_email(e)}

StoreRecords ==
    [username : {<<"a", "b">>, <<"c", "1">>},
     email : StoreEmails,
     password_hash : {hash_password(PwAlice)},
     balance : {100}]

StoreInit ==
    /\ \E n \in 0 .. MaxStoreUsers :
          \E us \in [1 .. n -> StoreRecords] :
              /\ users = RefsOf(us)
              /\ records = RecordsOf(us)
    /\ current_user = None
    /\ cart = <<>>
    /\ products = <<>>
    /\ accounts_txt = <<>>
    /\ password = <<>>
    /\ running = TRUE
    /\ last = Call("main", 0, 0, "None")

StoreNext ==
    \/ \E io \in {"ok", "error"} : save_users(io)
    \/ load_users

SpecStore == StoreInit /\ [][StoreNext]_vars

----------------------------------------------------------------------------
(* generate_password, one random.choice at a time.  random.shuffle makes   *)
(* every order of the list possible and validate_password does not depend  *)
(* on the order, so the list is kept as the bag of its characters and      *)
(* joined in one fixed order.                                              *)

\* the characters random.choice is tried with, of string.digits,
\* string.ascii_lowercase and string.ascii_uppercase
RandomDigits == {"7"}

RandomLower == {"k"}

RandomUpper == {"Q"}

\* all_pass_chars: digits, letters and sym_pass_chars[0]
all_pass_chars ==
    RandomDigits \cup RandomLower \cup RandomUpper \cup {Punctuation[1]}

\* range(12): the characters appended after the four required ones
FillCount == 12

\* the order in which the bag's characters are joined
JoinOrder ==
    <<"7", "k", "Q">> \o Punctuation

RECURSIVE Repeat(_, _)
Repeat(c, n) == IF n = 0 THEN <<>> ELSE <<c>> \o Repeat(c, n - 1)

RECURSIVE JoinFrom(_, _)
JoinFrom(bag, k) ==
    IF k > Len(JoinOrder) THEN <<>>
    ELSE Repeat(JoinOrder[k], CopiesIn(JoinOrder[k], bag))
         \o JoinFrom(bag, k + 1)

\* ''.join(password), after the shuffle
Joined(bag) == JoinFrom(bag, 1)

\* lines 23-28: one digit, one lower-case letter, one upper-case letter and
\* one character of string.punctuation
generate_password_required ==
    /\ running
    /\ last.op # "generate_password"
    /\ \E d \in RandomDigits, l \in RandomLower, u \in RandomUpper,
          sym \in Range(Punctuation) :
          password' = SetToBag({d}) (+) SetToBag({l}) (+) SetToBag({u})
                      (+) SetToBag({sym})
    /\ last' = Call("generate_password", 0, 0, "choosing")
    /\ UNCHANGED <<store_vars, cart, products, running>>

\* lines 30-31: one more character of all_pass_chars
generate_password_fill ==
    /\ running
    /\ last = Call("generate_password", 0, 0, "choosing")
    /\ BagCardinality(password) < 4 + FillCount
    /\ \E c \in all_pass_chars : password' = password (+) SetToBag({c})
    /\ UNCHANGED <<store_vars, cart, products, running, last>>

\* lines 32-33: shuffle, join and return
generate_password_return ==
    /\ running
    /\ last = Call("generate_password", 0, 0, "choosing")
    /\ BagCardinality(password) = 4 + FillCount
    /\ last' = Call("generate_password", 0, 0, "returned")
    /\ UNCHANGED <<store_vars, cart, products, running, password>>

PasswordInit ==
    /\ users = <<>>
    /\ records = <<>>
    /\ current_user = None
    /\ accounts_txt = <<>>
    /\ cart = <<>>
    /\ products = <<>>
    /\ password = EmptyBag
    /\ running = TRUE
    /\ last = Call("sign_up_user", 0, 0, "auto-gen")

PasswordNext ==
    \/ generate_password_required
    \/ generate_password_fill
    \/ generate_password_return

SpecPassword == PasswordInit /\ [][PasswordNext]_vars

----------------------------------------------------------------------------
(* Properties *)

\* the total quantity of product `id` held in cart `c`
RECURSIVE InCart(_, _)
InCart(c, id) ==
    IF c = <<>> THEN 0
    ELSE (IF Head(c).product_id = id THEN Head(c).quantity ELSE 0)
         + InCart(Tail(c), id)

\* C1: with only the four cart operations, called with any arguments from
\* freshly loaded products and an empty cart, every product's stock plus the
\* quantity of it in the cart is its initial stock, 10.
C1_Conservation ==
    \A i \in DOMAIN products :
        products[i].stock + InCart(cart, products[i].id) = DefaultStock

\* three adds of product 1 have left stock 7 and one cart item of quantity 3
C1_Witness ==
    /\ last.op = "add_to_cart"
    /\ Len(cart) = 1
    /\ cart[1].product_id = 1
    /\ cart[1].quantity = 3
    /\ products[1].stock = 7

\* C5: add_to_cart of a known product with stock > 0 takes exactly one unit
\* of that product's stock and either adds one to the existing cart item of
\* the product or appends a new item of quantity 1; nothing else changes.
C5_AddMovesOneUnit ==
    [][(/\ last'.op = "add_to_cart"
        /\ FindProduct(products, last'.a) # 0
        /\ products[FindProduct(products, last'.a)].stock > 0)
       => LET id == last'.a
              pi == FindProduct(products, id)
              had == \E j \in DOMAIN cart : cart[j].product_id = id
          IN  /\ DOMAIN products' = DOMAIN products
              /\ \A j \in DOMAIN products :
                    products'[j] =
                        IF j = pi
                        THEN [products[j] EXCEPT !.stock = products[j].stock - 1]
                        ELSE products[j]
              /\ had =>
                    /\ Len(cart') = Len(cart)
                    /\ \A j \in DOMAIN cart :
                          cart'[j] =
                              IF cart[j].product_id = id
                              THEN [cart[j] EXCEPT
                                        !.quantity = cart[j].quantity + 1]
                              ELSE cart[j]
              /\ ~had =>
                    /\ Len(cart') = Len(cart) + 1
                    /\ SubSeq(cart', 1, Len(cart)) = cart
                    /\ cart'[Len(cart')].product_id = id
                    /\ cart'[Len(cart')].quantity = 1
      ]_vars

\* a repeat add of product 2, the second item of the cart
C5_Witness ==
    /\ last = Call("add_to_cart", 2, 0, "added")
    /\ Len(cart) = 2
    /\ cart[2].product_id = 2
    /\ cart[2].quantity = 2
    /\ products[2].stock = DefaultStock - 2

\* C6: add_to_cart of a product whose stock is <= 0, or whose id no product
\* of the inventory has, leaves the cart and every stock unchanged.
C6_AddRejected ==
    [][(/\ last'.op = "add_to_cart"
        /\ \/ FindProduct(products, last'.a) = 0
           \/ products[FindProduct(products, last'.a)].stock <= 0)
       => /\ cart' = cart
          /\ products' = products
      ]_vars

\* an add of product 1 was refused with all 10 units of it in the cart
C6_Witness ==
    /\ last = Call("add_to_cart", 1, 0, "out of stock")
    /\ products[1].stock = 0
    /\ InCart(cart, 1) = DefaultStock

\* C7: update_cart_item(i, q) returns False and changes nothing exactly when
\* i is out of range, q <= 0, or the increase exceeds the product's stock;
\* otherwise it returns True, sets that item's quantity to q and takes
\* q - currentQty from the product's stock, and changes nothing else.
C7_UpdateCartItem ==
    [][last'.op = "update_cart_item"
       => LET i == last'.a
              q == last'.b
              inRange == i >= 0 /\ i < Len(cart)
              pi == IF inRange
                    THEN FindProduct(products, cart[i + 1].product_id)
                    ELSE 0
              diff == IF inRange THEN q - cart[i + 1].quantity ELSE 0
              refused ==
                  \/ ~inRange
                  \/ q <= 0
                  \/ diff > 0 /\ pi # 0 /\ products[pi].stock < diff
          IN  IF refused
              THEN /\ last'.ret = "False"
                   /\ cart' = cart
                   /\ products' = products
              ELSE /\ last'.ret = "True"
                   /\ pi # 0
                   /\ cart' = [cart EXCEPT ![i + 1].quantity = q]
                   /\ products' =
                        [products EXCEPT ![pi].stock = products[pi].stock - diff]
      ]_vars

\* an update of the only item from 3 to 1 has given two units back
C7_Witness ==
    /\ last = Call("update_cart_item", 0, 1, "True")
    /\ Len(cart) = 1
    /\ cart[1].product_id = 1
    /\ cart[1].quantity = 1
    /\ products[1].stock = 9
    /\ products[2].stock = DefaultStock

\* C8: remove_from_cart(i) with i out of range returns False and changes
\* nothing; with i in range it returns the item's whole quantity to the
\* product's stock, deletes exactly that item and returns True.
C8_RemoveFromCart ==
    [][last'.op = "remove_from_cart"
       => LET i == last'.a IN
          IF i < 0 \/ i >= Len(cart)
          THEN /\ last'.ret = "False"
               /\ cart' = cart
               /\ products' = products
          ELSE LET pi == FindProduct(products, cart[i + 1].product_id) IN
               /\ last'.ret = "True"
               /\ pi # 0
               /\ products' =
                    [products EXCEPT
                        ![pi].stock = products[pi].stock + cart[i + 1].quantity]
               /\ Len(cart') = Len(cart) - 1
               /\ \A j \in DOMAIN cart' :
                     cart'[j] = IF j <= i THEN cart[j] ELSE cart[j + 1]
      ]_vars

\* the first of two items was removed: the second is now the only one
C8_Witness ==
    /\ last = Call("remove_from_cart", 0, 0, "True")
    /\ Len(cart) = 1
    /\ cart[1].product_id = 2
    /\ cart[1].quantity = 4
    /\ products[1].stock = DefaultStock
    /\ products[2].stock = DefaultStock - 4


\* a user record as sign-up and the account changes are meant to make it
ValidRecord(u) ==
    /\ IsAlnum(u.username)
    /\ Len(u.username) >= 2
    /\ validate_email(u.email)
    /\ u.password_hash # <<>>
    /\ u.balance >= 0

\* C10: for any list of valid user records, save_users followed by
\* load_users gives the same records in the same order.
C10_RoundTrip ==
    [][(/\ last = Call("save_users", 0, 0, "None")
        /\ last'.op = "load_users"
        /\ \A i \in DOMAIN UserList : ValidRecord(UserList[i]))
       => UserList' = UserList
      ]_vars


\* C9: every password generate_password returns satisfies the policy of
\* validate_password.
C9_GeneratedPasswordValid ==
    last = Call("generate_password", 0, 0, "returned")
        => validate_password(Joined(password))


\* C2 as stated: checkout with total > balance leaves the balance and the
\* cart unchanged; with total <= balance it ends with the balance debited by
\* the total and an empty cart.
C2_CheckoutAsStated ==
    [][last'.op = "checkout"
       => LET total == view_cart(cart)
              before == records[current_user].balance
              after == records'[current_user].balance
          IN  /\ total > before => after = before /\ cart' = cart
              /\ total <= before => after = before - total /\ cart' = <<>>
      ]_vars

\* C2, amended: checkout with total > balance leaves the balance and the
\* cart unchanged; with 0 < total <= balance it debits the balance by the
\* total if the user answers "y" to the confirmation, and then empties the
\* cart if save_users succeeds and leaves the cart as it was if save_users
\* raises; with any other answer it leaves the balance and the cart unchanged.
C2_Checkout ==
    [][last'.op = "checkout"
       => LET total == view_cart(cart)
              before == records[current_user].balance
              after == records'[current_user].balance
              confirmed == last'.a = 1
              saved == last'.b = 1
          IN  /\ total > before => after = before /\ cart' = cart
              /\ (0 < total /\ total <= before /\ confirmed) =>
                    /\ after = before - total
                    /\ cart' = IF saved THEN <<>> ELSE cart
              /\ (0 < total /\ total <= before /\ ~confirmed) =>
                    after = before /\ cart' = cart
      ]_vars

\* a confirmed, saved checkout of one unit at 50 from a wallet of 100
C2_Witness ==
    /\ last = Call("checkout", 1, 1, "successful")
    /\ cart = <<>>
    /\ current_user # None
    /\ records[current_user].balance = 50
    /\ products[1].stock = DefaultStock - 1

\* C3: no two records of the user store have the same username, after any
\* sequence of sign-ups and username changes from a store of distinct ones.
C3_UsernamesUnique ==
    \A i, j \in DOMAIN users :
        records[users[i]].username = records[users[j]].username => i = j

\* C4: in every state of the running program, every product's stock plus
\* the quantity of it in the cart is its original stock.
C4_ConservationAtAllTimes ==
    running =>
        \A i \in DOMAIN products :
            products[i].stock + InCart(cart, products[i].id) = DefaultStock

\* C11: when save_users raises in an operation that saves (sign-up, fund
\* wallet, checkout, the username, email and password changes, the balance
\* reset, account deletion), the operation catches the error and reports it:
\* the program goes on running.
C11_SaveFailureCaught ==
    last.ret \in {"OSError", "error saving", "error deleting"} => running

\* C12: in change_username, change_email, change_password, reset_balance and
\* delete_account, when the answer to the verification prompt is empty or its
\* digest differs from the current user's password_hash, the operation
\* returns without changing a user record, the user store, the current
\* session or the cart.
C12_ReauthenticationGate ==
    [][(/\ last'.op \in {"change_username", "change_email", "change_password",
                         "reset_balance", "delete_account"}
        /\ LET entered == Strip(Keyboard[last'.a]) IN
           \/ entered = <<>>
           \/ hash_password(entered) # records[current_user].password_hash)
       => /\ users' = users
          /\ records' = records
          /\ accounts_txt' = accounts_txt
          /\ current_user' = current_user
          /\ cart' = cart
          /\ running' = running
      ]_vars

\* after the password was changed, the old password was typed at the prompt
\* of change_email and refused, with an item in the cart
C12_Witness ==
    /\ last = Call("change_email", KeyOf(PwAlice), 0, "incorrect password")
    /\ current_user # None
    /\ records[current_user].password_hash = hash_password(PwBob)
    /\ records[current_user].email = AliceMail
    /\ cart # <<>>

\* C13: sign_in_user returns True and sets the current user if and only if
\* there is a record whose username or email equals the identifier and the
\* first such record's password_hash equals the digest of the entered
\* password; the current user is then that first record.  Otherwise it
\* returns False and leaves the current user and the user store unchanged.
\* (The identifier and the password are the answers as sign_in_user reads
\* them, without the blanks around them.)
C13_SignIn ==
    [][last'.op = "sign_in_user"
       => LET identifier == Strip(Keyboard[last'.a])
              entered == Strip(Keyboard[last'.b])
              matching == {i \in DOMAIN users :
                             \/ records[users[i]].username = identifier
                             \/ records[users[i]].email = identifier}
              succeeds ==
                  /\ matching # {}
                  /\ \E i \in matching :
                        /\ \A j \in matching : i <= j
                        /\ records[users[i]].password_hash
                             = hash_password(entered)
          IN  /\ users' = users
              /\ records' = records
              /\ accounts_txt' = accounts_txt
              /\ IF succeeds
                 THEN /\ last'.ret = "True"
                      /\ \E i \in matching :
                            /\ \A j \in matching : i <= j
                            /\ current_user' = users[i]
                 ELSE /\ last'.ret = "False"
                      /\ current_user' = current_user
      ]_vars

\* two records are named alice; signing in as alice with the first one's
\* password has made the first one the current user
C13_Witness ==
    /\ last = Call("sign_in_user", KeyOf(Alice), KeyOf(PwAlice), "True")
    /\ Len(users) = 2
    /\ records[users[1]].username = Alice
    /\ records[users[2]].username = Alice
    /\ records[users[2]].password_hash # records[users[1]].password_hash
    /\ current_user = users[1]

\* C14: no two records of the user store have the same email, after any
\* sequence of sign-ups and email changes from a store of distinct emails.
C14_EmailsUnique ==
    \A i, j \in DOMAIN users :
        records[users[i]].email = records[users[j]].email => i = j

\* the first user has taken a new email and a sign-up has then been given
\* the email the first user had
C14_Witness ==
    /\ last.op = "sign_up_user"
    /\ Len(users) = 2
    /\ records[users[1]].email = BobMail
    /\ records[users[2]].email = AliceMail

\* C15: in every state in which there is no current user (before the first
\* sign-in, after a failed sign-in, after logout, after a successful account
\* deletion), the cart holds no items.
C15_CartEmptyOutsideSession ==
    current_user = None => cart = <<>>

\* a logout with a unit in the cart: the unit has left the stock and the
\* cart is empty
C15_Witness ==
    /\ last.op = "logout"
    /\ current_user = None
    /\ cart = <<>>
    /\ products[1].stock = DefaultStock - 1

\* C16: in every state reachable by add_to_cart, update_cart_item,
\* remove_from_cart, clear_cart and checkout calls from freshly loaded
\* products, every product's stock is an integer >= 0.
C16_StockNeverNegative ==
    \A i \in DOMAIN products :
        products[i].stock \in Int /\ products[i].stock >= 0

\* units have been sold by a checkout, the rest of the stock is in the cart,
\* and one more add was refused at stock 0
C16_Witness ==
    /\ last = Call("add_to_cart", 1, 0, "out of stock")
    /\ products[1].stock = 0
    /\ InCart(cart, 1) = DefaultStock - 2
    /\ records[current_user].balance = 0

\* C17: from a store whose balances are all >= 0, after any sequence of
\* fund_wallet, checkout, reset_balance and cart operations, the current
\* user's balance is >= 0.
C17_BalanceNeverNegative ==
    current_user # None => FloatGe(records[current_user].balance, 0)

\* C18: after any checkout call (confirmed or declined, save_users
\* succeeding or raising), either the balance and the cart are both
\* unchanged, or the balance is debited by the cart total and the cart is
\* empty: the balance is never debited with the paid-for items still in the
\* cart.
C18_CheckoutAllOrNothing ==
    [][last'.op = "checkout"
       => LET total == view_cart(cart)
              before == records[current_user].balance
              after == records'[current_user].balance
          IN  \/ after = before /\ cart' = cart
              \/ after = FloatSub(before, total) /\ cart' = <<>>
      ]_vars

\* C19: in every state, after any sequence of sign-in, sign-up, account
\* changes and account deletion, with save_users succeeding or raising, the
\* current user is None or one of the records of the user store.
C19_CurrentUserInStore ==
    current_user = None \/ \E i \in DOMAIN users : users[i] = current_user

====
